---- MODULE Spec2Model ----
(***************************************************************************)
(* A model of blogger_to_hugo.py: the conversion of a Blogger Atom export  *)
(* into one folder per post (index.md plus the post's images) and a        *)
(* url_map.csv.                                                            *)
(*                                                                         *)
(* Representation.  A URL "http://<host>/<seg>/.../<seg>" is a record      *)
(* [host, path] whose path is the sequence of its path segments; a segment *)
(* is a record [t, v, e]:                                                  *)
(*     t = "s"  : a size token   "s<v>"      (v a numeral)                 *)
(*     t = "sh" : a size token   "s<v>-h"                                  *)
(*     t = "f"  : a file name    "<v>.<e>"                                 *)
(*     t = "d"  : any other name "<v>"       (no dot)                      *)
(* Attribute dictionaries (img.attrs, <a> attributes, <link> attributes)   *)
(* are records whose DOMAIN is the set of attributes that are present.     *)
(***************************************************************************)
EXTENDS Integers, Sequences, FiniteSets, TLC

VARIABLES
    pc,          \* position of the run
    xml_root,    \* main: the parsed export, a sequence of <entry> elements
    options,     \* main: the parsed command line
    posts,       \* main: posts
    url_map,     \* main: url_map
    cur,         \* main: index in posts of the post of the for loop
    post_folder, \* process_post: post_folder
    dom,         \* process_post: html, the nodes of the parsed fragment
    top,         \* process_post: html, the children of the document
    imgs,        \* replace_images_with_downloaded: html.find_all('img')
    k,           \* replace_images_with_downloaded: position in imgs
    dirs,        \* file system: the folders that exist
    fs,          \* file system: the files that exist, path -> content
    fetched,     \* network: the requests so far and their answers, in order
    written,     \* file system: the paths written so far, in order
    error,       \* the exception that ended the run, "" while there is none
    img_attrs,   \* get_src_resize_if_needed: img_attrs
    src          \* get_src_resize_if_needed: src

vars == <<pc, xml_root, options, posts, url_map, cur, post_folder, dom, top,
          imgs, k, dirs, fs, fetched, written, error, img_attrs, src>>

----------------------------------------------------------------------------
(* Program constants *)

CATEGORY_KIND == "http://schemas.google.com/g/2005#kind"
CATEGORY_TAG == "http://www.blogger.com/atom/ns#"
TERM_POST == "http://schemas.google.com/blogger/2008/kind#post"
\* the kind term of a page, one of the entries that are no posts
TERM_PAGE == "http://schemas.google.com/blogger/2008/kind#page"
StatusOK == 200
\* The status codes the network answers with in this model
Statuses == {StatusOK, 404}

----------------------------------------------------------------------------
(* URLs *)

Seg(t, v, e) == [t |-> t, v |-> v, e |-> e]
SizeSeg(n) == Seg("s", n, "")
SizeHSeg(n) == Seg("sh", n, "")
File(v, e) == Seg("f", v, e)
Dir(v) == Seg("d", v, "")
Url(host, path) == [host |-> host, path |-> path]

\* The value of e.get('href') when the attribute is missing, and an empty href
NoUrl == Url("<None>", <<>>)
EmptyUrl == Url("", <<>>)

\* str.replace over the segments of a path from position i on.  The pattern
\* "/<old>/" needs a slash on both sides, so the last segment never matches,
\* and matches do not overlap: the slash that closes one match cannot open
\* the next (blocked).
RECURSIVE ReplacePath(_, _, _, _, _)
ReplacePath(path, i, blocked, old, new) ==
    IF i > Len(path) THEN <<>>
    ELSE IF i < Len(path) /\ ~blocked /\ path[i] = old
         THEN <<new>> \o ReplacePath(path, i + 1, TRUE, old, new)
         ELSE <<path[i]>> \o ReplacePath(path, i + 1, FALSE, old, new)

\* src.replace('/s{}/'.format(size), '/s{}/'.format(orig_size))
ReplaceSize(url, size, orig_size) ==
    Url(url.host, ReplacePath(url.path, 1, FALSE, SizeSeg(size), SizeSeg(orig_size)))

\* resize_if_needed(src, size_name, orig_size_name) of get_src_resize_if_needed
resize_if_needed(url, attrs, size_name, orig_size_name) ==
    IF size_name \in DOMAIN attrs /\ orig_size_name \in DOMAIN attrs
    THEN ReplaceSize(url, attrs[size_name], attrs[orig_size_name])
    ELSE url

\* get_src_resize_if_needed without its width-based step
get_src_resize_height_only(attrs) ==
    resize_if_needed(attrs.src, attrs, "height", "data-original-height")

get_src_resize_if_needed(attrs) ==
    resize_if_needed(
        resize_if_needed(attrs.src, attrs, "height", "data-original-height"),
        attrs, "width", "data-original-width")

\* x.split('.')[-1] of a URL: the text after its last dot, which is the
\* extension of the last file segment and whatever segments follow it; a
\* path without any dot leaves the end of the host name and the whole path.
RECURSIVE LastDotted(_, _)
LastDotted(path, i) ==
    IF i = 0 THEN 0
    ELSE IF path[i].e # "" THEN i
    ELSE LastDotted(path, i - 1)

SplitDotLast(url) ==
    LET i == LastDotted(url.path, Len(url.path))
    IN  IF i = 0
        THEN [e |-> "<tld>", tail |-> url.path]
        ELSE [e |-> url.path[i].e, tail |-> SubSeq(url.path, i + 1, Len(url.path))]

has_identical_extension(a, b) == SplitDotLast(a) = SplitDotLast(b)

\* re.sub(r'/(s\d+)-h/', r'/\1/', href): as ReplacePath, for every "s<N>-h"
RECURSIVE SubPath(_, _, _)
SubPath(path, i, blocked) ==
    IF i > Len(path) THEN <<>>
    ELSE IF i < Len(path) /\ ~blocked /\ path[i].t = "sh"
         THEN <<SizeSeg(path[i].v)>> \o SubPath(path, i + 1, TRUE)
         ELSE <<path[i]>> \o SubPath(path, i + 1, FALSE)

SubSizeH(url) == Url(url.host, SubPath(url.path, 1, FALSE))

\* Path(urlparse(href).path).name, the final path segment ('' without one)
PathName(url) == IF url.path = <<>> THEN Dir("") ELSE url.path[Len(url.path)]

\* Path(...).stem and Path(...).parent
PathStem(path) == IF path = <<>> THEN "" ELSE path[Len(path)].v
PathParent(path) == IF path = <<>> THEN <<>> ELSE SubSeq(path, 1, Len(path) - 1)

----------------------------------------------------------------------------
(* The HTML fragment (BeautifulSoup).  dom[x] is the element with identity *)
(* x: its tag, attributes, parent and children; top is the children of the *)
(* BeautifulSoup object itself.                                            *)

Document == 0
Detached == -1

Node(tag, attrs, kids) == [tag |-> tag, attrs |-> attrs, kids |-> kids]
Img(attrs) == Node("img", attrs, <<>>)

\* bs(content, 'html.parser') of a fragment nested two levels deep: elements
\* are numbered in document order
RECURSIVE ParseFrom(_, _, _)
ParseFrom(content, j, d) ==
    IF j > Len(content) THEN [dom |-> d, top |-> <<>>]
    ELSE LET id == Len(d) + 1
             node == content[j]
             me == [tag |-> node.tag, attrs |-> node.attrs, parent |-> Document,
                    kids |-> [m \in 1..Len(node.kids) |-> id + m]]
             kidNodes == [m \in 1..Len(node.kids) |->
                            [tag |-> node.kids[m].tag, attrs |-> node.kids[m].attrs,
                             parent |-> id, kids |-> <<>>]]
             rest == ParseFrom(content, j + 1, (d \o <<me>>) \o kidNodes)
         IN  [dom |-> rest.dom, top |-> <<id>> \o rest.top]

bs(content) == ParseFrom(content, 1, <<>>)

\* html.find_all('img'): the img elements under ids, in document order
RECURSIVE find_all(_, _)
find_all(d, ids) ==
    IF ids = <<>> THEN <<>>
    ELSE LET x == Head(ids)
         IN  ((IF d[x].tag = "img" THEN <<x>> ELSE <<>>) \o find_all(d, d[x].kids))
             \o find_all(d, Tail(ids))

\* html.new_tag('img', src=name): a fresh element, in no tree yet
new_tag(d, name) ==
    Append(d, [tag |-> "img", attrs |-> [src |-> Url("", <<name>>)],
               parent |-> Detached, kids |-> <<>>])

SubstId(ids, old, new) == [m \in 1..Len(ids) |-> IF ids[m] = old THEN new ELSE ids[m]]

\* old.replace_with(new) where old is part of a tree: new takes old's place
\* among the children of old's parent, old leaves the tree with its subtree
replace_with(d, t, old, new) ==
    LET parent == d[old].parent
        d1 == [d EXCEPT ![old].parent = Detached, ![new].parent = parent]
    IN  IF parent = Document
        THEN [dom |-> d1, top |-> SubstId(t, old, new)]
        ELSE [dom |-> [d1 EXCEPT ![parent].kids = SubstId(@, old, new)], top |-> t]

\* pypandoc.convert_text(html, ...): the text rendered from the tree under ids
RECURSIVE convert_text(_, _)
convert_text(d, ids) ==
    [m \in 1..Len(ids) |->
        [tag |-> d[ids[m]].tag, attrs |-> d[ids[m]].attrs,
         body |-> convert_text(d, d[ids[m]].kids)]]

----------------------------------------------------------------------------
(* The file system *)

Folder(base, sub, leaf) == [base |-> base, sub |-> sub, leaf |-> leaf]
\* Path(options.output_folder)
root_folder == Folder(".", <<>>, <<>>)
FilePath(folder, name) == [folder |-> folder, name |-> name]
IndexMd == File("index", "md")
UrlMapCsv == File("url_map", "csv")

\* io.open(path, 'wb').write / Path.write_text: creates or truncates the file
WriteFile(files, path, content) ==
    [q \in DOMAIN files \cup {path} |-> IF q = path THEN content ELSE files[q]]

----------------------------------------------------------------------------
(* Entries of the export *)

Category(scheme, term) == [scheme |-> scheme, term |-> term]
KindPost == Category(CATEGORY_KIND, TERM_POST)
KindPage == Category(CATEGORY_KIND, TERM_PAGE)
Tag(term) == Category(CATEGORY_TAG, term)

\* get_post_entries, the inner loop over entry.findall('atom:category') from
\* c on: the entry is appended at the first matching category, then break
\* the inner loop without its break
RECURSIVE CategoryLoopNoBreak(_, _)
CategoryLoopNoBreak(entry, c) ==
    IF c > Len(entry.categories) THEN <<>>
    ELSE IF /\ entry.categories[c].scheme = CATEGORY_KIND
            /\ entry.categories[c].term = TERM_POST
         THEN <<entry>> \o CategoryLoopNoBreak(entry, c + 1)
         ELSE CategoryLoopNoBreak(entry, c + 1)

RECURSIVE CategoryLoop(_, _)
CategoryLoop(entry, c) ==
    IF c > Len(entry.categories) THEN <<>>
    ELSE IF /\ entry.categories[c].scheme = CATEGORY_KIND
            /\ entry.categories[c].term = TERM_POST
         THEN <<entry>>
         ELSE CategoryLoop(entry, c + 1)

\* get_post_entries, the outer loop over xml_root.findall('atom:entry') from j on
RECURSIVE EntryLoop(_, _)
EntryLoop(root, j) ==
    IF j > Len(root) THEN <<>>
    ELSE CategoryLoop(root[j], 1) \o EntryLoop(root, j + 1)

get_post_entries(root) == EntryLoop(root, 1)

\* get_post_tags
get_post_tags(post) ==
    LET IsTag(c) == c.scheme = CATEGORY_TAG
        tagcats == SelectSeq(post.categories, IsTag)
    IN  [m \in 1..Len(tagcats) |-> tagcats[m].term]

\* next((e.get('href') for e in links if e.get('rel') == 'alternate'), None)
PublishedUrl(post) ==
    LET IsAlternate(e) == "rel" \in DOMAIN e /\ e.rel = "alternate"
        alts == SelectSeq(post.links, IsAlternate)
    IN  IF alts = <<>> THEN NoUrl
        ELSE IF "href" \in DOMAIN alts[1] THEN alts[1].href
        ELSE NoUrl

\* a test for None alone: published_url is None
IsDraftNoneOnly(post) == PublishedUrl(post) = NoUrl

\* not published_url: None and '' are false
IsDraft(post) == PublishedUrl(post) \in {NoUrl, EmptyUrl}

\* slugify(title, to_lower=True), on the titles of this model
slugify(title) ==
    CASE title = "Hello World" -> "hello-world"
      [] title = "hello world" -> "hello-world"
      [] title = "About" -> "about"
      [] OTHER -> "other"

\* slug of process_post
PostSlug(post) ==
    IF IsDraft(post) THEN slugify(post.title)
    ELSE PathStem(PublishedUrl(post).path)

\* '{:04}-{:02}-{:02}'.format(year, month, day) followed by -slug
LeafName(published, slug) == <<published.year, published.month, published.day, slug>>

\* post_folder of process_post
PostFolder(post) ==
    IF IsDraft(post)
    THEN Folder("draft_posts", <<>>, LeafName(post.published, PostSlug(post)))
    ELSE Folder("post", <<post.published.year>>, LeafName(post.published, PostSlug(post)))

\* aliases of process_post
PostAliases(post) ==
    IF IsDraft(post) THEN <<>> ELSE <<PublishedUrl(post).path>>

\* new_url = options.new_root + str(p.parent) + '/' + p.stem
NewUrl(opts, post) ==
    LET path == PublishedUrl(post).path
    IN  [root |-> opts.new_root, parent |-> PathParent(path), stem |-> PathStem(path)]

\* url_map with the entry put in front
UrlMapPrepend(map, opts, post) ==
    IF IsDraft(post) THEN map
    ELSE <<<<PublishedUrl(post), NewUrl(opts, post)>>>> \o map

\* url_map after process_post's url_map.append((published_url, new_url))
UrlMapAfter(map, opts, post) ==
    IF IsDraft(post) THEN map
    ELSE Append(map, <<PublishedUrl(post), NewUrl(opts, post)>>)

\* metadata_dict of process_post, with aliases when there are any and
\* options.front_alias is set
FrontMatter(opts, post) ==
    LET metadata_dict ==
            [title |-> post.title, slug |-> PostSlug(post),
             published |-> <<post.published.year, post.published.month, post.published.day>>,
             author |-> post.author, tags |-> get_post_tags(post)]
    IN  IF PostAliases(post) # <<>> /\ opts.front_alias
        THEN ("aliases" :> PostAliases(post)) @@ metadata_dict
        ELSE metadata_dict

\* f'{o},{n},\n'
CsvLine(pair) == [old |-> pair[1], c1 |-> ",", new |-> pair[2], c2 |-> ",", eol |-> "\n"]
UrlMapText(map) == [m \in 1..Len(map) |-> CsvLine(map[m])]

\* posts[:num_posts]; a negative num_posts counts from the end
Slice(seq, n) ==
    IF n >= 0 THEN SubSeq(seq, 1, IF n < Len(seq) THEN n ELSE Len(seq))
    ELSE SubSeq(seq, 1, IF Len(seq) + n > 0 THEN Len(seq) + n ELSE 0)

----------------------------------------------------------------------------
(* The inputs of the model *)

\* The longest export, in entries
MaxEntries == 3
\* The largest --num_posts
MaxNumPosts == 2

D1 == [year |-> 2019, month |-> 3, day |-> 1]
D2 == [year |-> 2020, month |-> 1, day |-> 2]

UrlPost1 == Url("old.example", <<Dir("2019"), Dir("03"), File("my-post", "html")>>)
UrlPost2 == Url("old.example", <<Dir("2019"), Dir("04"), File("my-post", "html")>>)
UrlPost3 == Url("old.example", <<Dir("2020"), Dir("01"), File("other", "html")>>)
UrlSelf == Url("www.blogger.com", <<Dir("feeds"), Dir("posts"), Dir("default")>>)

A(attrs, kids) == Node("a", attrs, kids)
Div(kids) == Node("div", <<>>, kids)

Entry(categories, links, title, published, content) ==
    [categories |-> categories, links |-> links, title |-> title,
     published |-> published, content |-> content, author |-> "Author"]

\* a page, with an alternate link and an image
EntryPage ==
    Entry(<<Tag("x"), KindPage>>,
          <<[rel |-> "alternate", href |-> UrlPost1]>>, "About", D1,
          <<Img([src |-> Url("img.example", <<SizeSeg("320"), File("a", "png")>>)])>>)

\* a settings entry: no link, no content
EntrySettings ==
    Entry(<<Category(CATEGORY_KIND, "http://schemas.google.com/blogger/2008/kind#settings")>>,
          <<>>, "About", D2, <<>>)

\* a published post: a thumbnail linking to its original, and an image
\* without src
EntryPost1 ==
    Entry(<<Tag("x"), KindPost, Tag("y")>>,
          <<[rel |-> "self", href |-> UrlSelf],
            [rel |-> "alternate", href |-> UrlPost1],
            [rel |-> "alternate", href |-> UrlPost2]>>, "Hello World", D1,
          <<A([href |-> Url("img.example", <<SizeHSeg("1600"), File("full", "png")>>)],
              <<Img([src |-> Url("img.example", <<SizeSeg("320"), File("thumb", "png")>>),
                     height |-> "320", width |-> "320"])>>),
            Img([alt |-> "no source"])>>)

\* a published post of another day: two images whose URLs end in the same
\* file name
EntryPost2 ==
    Entry(<<KindPost, KindPost>>,
          <<[href |-> UrlSelf], [rel |-> "alternate", href |-> UrlPost3]>>, "Other", D2,
          <<Img(("data-original-height" :> "1600") @@
                [src |-> Url("img.example", <<SizeSeg("320"), File("x", "png")>>),
                 height |-> "320"]),
            Img([src |-> Url("cdn.example", <<SizeSeg("640"), File("x", "png")>>)])>>)

\* a published post with the slug and date of EntryPost1: two images inside
\* one link to a file with their extension
EntryPost3 ==
    Entry(<<KindPost, Tag("x")>>,
          <<[rel |-> "alternate", href |-> UrlPost2], [rel |-> "self", href |-> UrlSelf]>>,
          "Other", D1,
          <<A([href |-> Url("img.example", <<File("full", "png")>>)],
              <<Img([src |-> Url("img.example", <<File("a", "png")>>)]),
                Img([src |-> Url("img.example", <<File("b", "png")>>)])>>)>>)

\* a draft: an image inside a div, and one inside a link to a page
EntryDraft1 ==
    Entry(<<KindPost>>, <<[rel |-> "self", href |-> UrlSelf]>>, "Hello World", D1,
          <<Div(<<Img([src |-> Url("img.example", <<SizeHSeg("1600"), File("c", "jpg")>>)])>>),
            A([href |-> Url("old.example", <<Dir("2019"), File("page", "html")>>)],
              <<Img([src |-> Url("img.example", <<File("d", "png")>>)])>>)>>)

\* an entry whose alternate link has an empty href, with the title and date
\* of EntryDraft1 but for the case: an image inside an anchor without href
EntryDraft2 ==
    Entry(<<Category(CATEGORY_TAG, TERM_POST), KindPost>>,
          <<[rel |-> "alternate", href |-> EmptyUrl]>>, "hello world", D1,
          <<A([name |-> "top"],
              <<Img([src |-> Url("img.example", <<File("c", "png")>>)])>>)>>)

\* an entry whose alternate link has no href: an image shown at a fifth of
\* its width
EntryDraft3 ==
    Entry(<<KindPost>>, <<[rel |-> "alternate"]>>, "Other", D2,
          <<Img(("data-original-width" :> "1600") @@
                [src |-> Url("img.example", <<SizeSeg("320"), File("e", "jpg")>>),
                 width |-> "320"])>>)

EntrySamples ==
    {EntryPage, EntrySettings, EntryPost1, EntryPost2, EntryPost3,
     EntryDraft1, EntryDraft2, EntryDraft3}

\* An export: each <entry> element has its own identity, its place in the file
WithIds(t) == [j \in 1..Len(t) |-> [id |-> j] @@ t[j]]
Trees == {WithIds(t) : t \in UNION {[1..n -> EntrySamples] : n \in 0..MaxEntries}}

\* parser_arguments: --num_posts is any int or missing (<<>>), --front_alias
\* a flag, --new_root a string
OptionSet ==
    [num_posts : {<<>>} \cup {<<n>> : n \in -2..MaxNumPosts},
     front_alias : BOOLEAN,
     new_root : {"https://new.example"}]

Init ==
    /\ pc = "start"
    /\ xml_root \in Trees
    /\ options \in OptionSet
    /\ posts = <<>>
    /\ url_map = <<>>
    /\ cur = 0
    /\ post_folder = root_folder
    /\ dom = <<>>
    /\ top = <<>>
    /\ imgs = <<>>
    /\ k = 0
    /\ dirs = {}
    /\ fs = <<>>
    /\ fetched = <<>>
    /\ written = <<>>
    /\ error = ""
    /\ img_attrs = <<>>
    /\ src = NoUrl

----------------------------------------------------------------------------
(* The run *)

Fail(exception) ==
    /\ pc' = "failed"
    /\ error' = exception

\* main: posts = get_post_entries(xml_root)
MainFilter ==
    /\ pc = "start"
    /\ posts' = get_post_entries(xml_root)
    /\ pc' = "truncate"
    /\ UNCHANGED <<xml_root, options, url_map, cur, post_folder, dom, top, imgs, k,
                   dirs, fs, fetched, written, error, img_attrs, src>>

\* main: if options.num_posts is not None: posts = posts[:options.num_posts];
\* url_map = []
MainTruncate ==
    /\ pc = "truncate"
    /\ posts' = IF options.num_posts # <<>> THEN Slice(posts, options.num_posts[1])
                ELSE posts
    /\ url_map' = <<>>
    /\ cur' = 1
    /\ pc' = "loop"
    /\ UNCHANGED <<xml_root, options, post_folder, dom, top, imgs, k,
                   dirs, fs, fetched, written, error, img_attrs, src>>

\* mkdir with exist_ok=True: an existing folder is no error
MkdirExistOk(folder, ds) == FALSE

\* post_folder.mkdir(parents=True) raises FileExistsError: the folder exists
MkdirFails(folder, ds) == folder \in ds

\* post_folder.mkdir(parents=True): the folder and its missing parents are made
Mkdir(folder) == dirs \cup {folder, root_folder}

\* process_post up to the call of replace_images_with_downloaded's loop: the
\* post is resolved, its URL map entry appended, its folder made and its
\* content parsed
ProcessPost ==
    /\ pc = "loop"
    /\ cur <= Len(posts)
    /\ LET post == posts[cur]
           html == bs(post.content)
       IN  /\ post_folder' = PostFolder(post)
           /\ url_map' = UrlMapAfter(url_map, options, post)
           /\ IF MkdirFails(PostFolder(post), dirs)
              THEN /\ Fail("FileExistsError")
                   /\ UNCHANGED <<dirs, dom, top, imgs, k>>
              ELSE /\ dirs' = Mkdir(PostFolder(post))
                   /\ dom' = html.dom
                   /\ top' = html.top
                   /\ imgs' = find_all(html.dom, html.top)
                   /\ k' = 1
                   /\ pc' = "images"
                   /\ UNCHANGED error
    /\ UNCHANGED <<xml_root, options, posts, cur, fs, fetched, written, img_attrs, src>>

\* a download that takes any answer for a success
AnyStatusOk(status) == TRUE

\* download_and_save_image: response.status_code != 200 raises
ResponseOk(status) == status = StatusOK

\* download_and_save_image(href, folder / name) answered with status, and
\* target_tag.replace_with(new_img)
Download(href, name, target, status) ==
    /\ fetched' = Append(fetched, [url |-> href, status |-> status])
    /\ IF ~ResponseOk(status)
       THEN /\ Fail("DownloadError")
            /\ UNCHANGED <<fs, written, dom, top, k>>
       ELSE IF name = Dir("")
       THEN /\ Fail("IsADirectoryError")
            /\ UNCHANGED <<fs, written, dom, top, k>>
       ELSE /\ fs' = WriteFile(fs, FilePath(post_folder, name), [bytes_of |-> href])
            /\ written' = Append(written, FilePath(post_folder, name))
            /\ IF dom[target].parent = Detached
               THEN /\ Fail("ValueError")
                    /\ UNCHANGED <<dom, top, k>>
               ELSE LET d == new_tag(dom, name)
                        html == replace_with(d, top, target, Len(d))
                    IN  /\ dom' = html.dom
                        /\ top' = html.top
                        /\ k' = k + 1
                        /\ UNCHANGED <<pc, error>>

\* replace_images_with_downloaded: one iteration of the loop over the images
ReplaceImage ==
    /\ pc = "images"
    /\ k <= Len(imgs)
    /\ LET img == imgs[k]
           attrs == dom[img].attrs
           parent == dom[img].parent
           in_a == parent # Document /\ dom[parent].tag = "a"
       IN  IF "src" \notin DOMAIN attrs
           THEN /\ k' = k + 1
                /\ UNCHANGED <<pc, error, dom, top, fs, fetched, written>>
           ELSE IF in_a /\ "href" \notin DOMAIN dom[parent].attrs
           THEN /\ Fail("KeyError")
                /\ UNCHANGED <<dom, top, k, fs, fetched, written>>
           ELSE LET href == get_src_resize_if_needed(attrs)
                    use_parent == in_a /\ has_identical_extension(href, dom[parent].attrs.href)
                    target_tag == IF use_parent THEN parent ELSE img
                    href2 == SubSizeH(IF use_parent THEN dom[parent].attrs.href ELSE href)
                IN  \E status \in Statuses :
                        Download(href2, PathName(href2), target_tag, status)
    /\ UNCHANGED <<xml_root, options, posts, url_map, cur, post_folder, imgs, dirs,
                   img_attrs, src>>

\* process_post after replace_images_with_downloaded has returned: the
\* converted text and the front matter are written to index.md
WriteIndex ==
    /\ pc = "images"
    /\ k > Len(imgs)
    /\ fs' = WriteFile(fs, FilePath(post_folder, IndexMd),
                       [front |-> FrontMatter(options, posts[cur]),
                        mkd |-> convert_text(dom, top)])
    /\ written' = Append(written, FilePath(post_folder, IndexMd))
    /\ cur' = cur + 1
    /\ pc' = "loop"
    /\ UNCHANGED <<xml_root, options, posts, url_map, post_folder, dom, top, imgs, k,
                   dirs, fetched, error, img_attrs, src>>

\* main: url_map_file.write_text(...) after the loop; the output folder
\* exists only if some post made it
WriteUrlMap ==
    /\ pc = "loop"
    /\ cur > Len(posts)
    /\ IF root_folder \in dirs
       THEN /\ fs' = WriteFile(fs, FilePath(root_folder, UrlMapCsv), UrlMapText(url_map))
            /\ written' = Append(written, FilePath(root_folder, UrlMapCsv))
            /\ pc' = "done"
            /\ UNCHANGED error
       ELSE /\ Fail("FileNotFoundError")
            /\ UNCHANGED <<fs, written>>
    /\ UNCHANGED <<xml_root, options, posts, url_map, cur, post_folder, dom, top, imgs, k,
                   dirs, fetched, img_attrs, src>>

Next ==
    \/ MainFilter
    \/ MainTruncate
    \/ ProcessPost
    \/ ReplaceImage
    \/ WriteIndex
    \/ WriteUrlMap

Spec == Init /\ [][Next]_vars

----------------------------------------------------------------------------
(* get_src_resize_if_needed on its own *)

Sizes == {"320", "640", "1600"}

SrcSamples ==
    {Url("img.example", <<SizeSeg(n), File("img", "jpg")>>) : n \in Sizes}
    \cup {Url("img.example", <<File("img", "jpg")>>),
          Url("img.example", <<Dir("a"), SizeSeg("320"), Dir("b"), File("img", "jpg")>>),
          Url("img.example", <<SizeSeg("320"), SizeSeg("320"), File("img", "jpg")>>),
          Url("img.example", <<SizeSeg("320"), Dir("a"), SizeSeg("320"), File("img", "jpg")>>),
          Url("img.example", <<Dir("a"), SizeSeg("320")>>),
          Url("img.example", <<SizeHSeg("320"), File("img", "jpg")>>)}

\* an attribute that is present with value v, or missing when v = ""
OptAttr(name, v) == IF v = "" THEN <<>> ELSE name :> v

ImgAttrSet ==
    {(((([src |-> s] @@ OptAttr("height", h)) @@ OptAttr("data-original-height", oh))
        @@ OptAttr("width", w)) @@ OptAttr("data-original-width", ow)) :
        s \in SrcSamples, h \in Sizes \cup {""}, oh \in Sizes \cup {""},
        w \in Sizes \cup {""}, ow \in Sizes \cup {""}}

InitResize ==
    /\ pc = "resize"
    /\ img_attrs \in ImgAttrSet
    /\ src = NoUrl
    /\ xml_root = <<>>
    /\ options = [num_posts |-> <<>>, front_alias |-> FALSE, new_root |-> ""]
    /\ posts = <<>>
    /\ url_map = <<>>
    /\ cur = 0
    /\ post_folder = root_folder
    /\ dom = <<>>
    /\ top = <<>>
    /\ imgs = <<>>
    /\ k = 0
    /\ dirs = {}
    /\ fs = <<>>
    /\ fetched = <<>>
    /\ written = <<>>
    /\ error = ""

\* src = get_src_resize_if_needed(img_attrs)
GetSrcResize ==
    /\ pc = "resize"
    /\ src' = get_src_resize_if_needed(img_attrs)
    /\ pc' = "resized"
    /\ UNCHANGED <<xml_root, options, posts, url_map, cur, post_folder, dom, top,
                   imgs, k, dirs, fs, fetched, written, error, img_attrs>>

NextResize == GetSrcResize

SpecResize == InitResize /\ [][NextResize]_vars

----------------------------------------------------------------------------
(* Properties of get_src_resize_if_needed, under SpecResize *)

\* the places of the size tokens "/s<N>/" of a URL
SizeTokens(url) == {i \in 1..(Len(url.path) - 1) : url.path[i].t = "s"}
WithToken(url, i, n) == Url(url.host, [url.path EXCEPT ![i] = SizeSeg(n)])
HasPair(attrs, size_name, orig_size_name) ==
    size_name \in DOMAIN attrs /\ orig_size_name \in DOMAIN attrs
\* the dimension's pair is present and its rendered size is n
Renders(attrs, size_name, orig_size_name, n) ==
    HasPair(attrs, size_name, orig_size_name) /\ attrs[size_name] = n

\* C8 as stated: for a src with one size token, the result's token is the
\* original size of a dimension whose rendered size is the src's token, and
\* a src whose token is no rendered size of a complete pair (or that has no
\* token) is returned unchanged.
C8_Original ==
    pc = "resized" =>
        LET a == img_attrs
            toks == SizeTokens(a.src)
        IN  /\ toks = {} => src = a.src
            /\ Cardinality(toks) = 1 =>
                 LET i == CHOOSE i \in toks : TRUE
                     t == a.src.path[i].v
                     hm == Renders(a, "height", "data-original-height", t)
                     wm == Renders(a, "width", "data-original-width", t)
                 IN  IF hm \/ wm
                     THEN \/ hm /\ src = WithToken(a.src, i, a["data-original-height"])
                          \/ wm /\ src = WithToken(a.src, i, a["data-original-width"])
                     ELSE src = a.src

\* C8 as amended: the width-based rewrite is applied to the result of the
\* height-based rewrite.  For a src with one size token t: if the height
\* pair is present with height = t the token becomes data-original-height,
\* and is rewritten once more, to data-original-width, when the width pair
\* is present with width = data-original-height; otherwise if the width pair
\* is present with width = t it becomes data-original-width; otherwise, and
\* for a src without a size token, the src is returned unchanged.
C8_Resize ==
    pc = "resized" =>
        LET a == img_attrs
            toks == SizeTokens(a.src)
        IN  /\ toks = {} => src = a.src
            /\ Cardinality(toks) = 1 =>
                 LET i == CHOOSE i \in toks : TRUE
                     t == a.src.path[i].v
                     hm == Renders(a, "height", "data-original-height", t)
                     wm == Renders(a, "width", "data-original-width", t)
                 IN  IF hm
                     THEN IF Renders(a, "width", "data-original-width",
                                     a["data-original-height"])
                          THEN src = WithToken(a.src, i, a["data-original-width"])
                          ELSE src = WithToken(a.src, i, a["data-original-height"])
                     ELSE IF wm
                     THEN src = WithToken(a.src, i, a["data-original-width"])
                     ELSE src = a.src

\* a src "/s320/" with height 320 -> 640 and width 640 -> 1600 came out as
\* "/s1600/"
C8_Witness ==
    /\ pc = "resized"
    /\ Cardinality(SizeTokens(img_attrs.src)) = 1
    /\ Renders(img_attrs, "height", "data-original-height", "320")
    /\ Renders(img_attrs, "width", "data-original-width", "640")
    /\ img_attrs["data-original-height"] = "640"
    /\ img_attrs["data-original-width"] = "1600"
    /\ img_attrs.src = Url("img.example", <<SizeSeg("320"), File("img", "jpg")>>)
    /\ src = Url("img.example", <<SizeSeg("1600"), File("img", "jpg")>>)

----------------------------------------------------------------------------
(* Properties of the run, under Spec *)

\* the entry has a category with the kind scheme and the post term
HasPostKind(entry) ==
    \E c \in 1..Len(entry.categories) :
        entry.categories[c] = [scheme |-> CATEGORY_KIND, term |-> TERM_POST]

FirstN(seq, n) == [m \in 1..(IF n < Len(seq) THEN (IF n > 0 THEN n ELSE 0) ELSE Len(seq)) |-> seq[m]]

\* C9 as stated: with --num_posts N the posts selected for processing are
\* the first N filtered post entries (all of them when there are fewer), so
\* no more than N; without it they are all the filtered post entries.
C9_Original ==
    pc = "loop" =>
        IF options.num_posts = <<>>
        THEN posts = get_post_entries(xml_root)
        ELSE /\ posts = FirstN(get_post_entries(xml_root), options.num_posts[1])
             /\ options.num_posts[1] >= 0 => Len(posts) <= options.num_posts[1]

\* the places of the post's links with rel="alternate"
Alternates(post) ==
    {l \in 1..Len(post.links) :
        "rel" \in DOMAIN post.links[l] /\ post.links[l].rel = "alternate"}
HasAlternate(post) == Alternates(post) # {}
\* the first alternate link carries a non-empty href
HasAlternateUrl(post) ==
    /\ HasAlternate(post)
    /\ LET first == CHOOSE l \in Alternates(post) : \A m \in Alternates(post) : l <= m
       IN  /\ "href" \in DOMAIN post.links[first]
           /\ post.links[first].href # EmptyUrl

\* process_post resolves the post of the loop
Resolving == pc = "loop" /\ cur <= Len(posts)
\* process_post writes the index.md of the post of the loop
Indexing == pc = "images" /\ pc' = "loop"
\* the step resolves the post as a draft: a folder under draft_posts/ and
\* nothing appended to the URL map
AsDraft ==
    /\ post_folder'.base = "draft_posts"
    /\ url_map' = url_map
\* the step resolves the post as published: a folder under post/<year>/ and
\* one entry appended to the URL map
AsPublished ==
    /\ post_folder'.base = "post"
    /\ post_folder'.sub = <<posts[cur].published.year>>
    /\ Len(url_map') = Len(url_map) + 1
    /\ SubSeq(url_map', 1, Len(url_map)) = url_map
NoAliasesWritten ==
    "aliases" \notin DOMAIN fs'[FilePath(post_folder, IndexMd)].front

\* C2 as stated: a post is handled as a draft iff it has no link with
\* rel="alternate"; a draft gets a folder under draft_posts/, no URL map
\* entry and no aliases, any other post a folder under post/<year>/ and
\* exactly one URL map entry.
C2_Original ==
    [][/\ Resolving => IF HasAlternate(posts[cur]) THEN AsPublished ELSE AsDraft
       /\ Indexing /\ ~HasAlternate(posts[cur]) => NoAliasesWritten]_vars

\* C2 as amended: a post is handled as a draft iff it has no link with
\* rel="alternate" or the first such link has no href or an empty one.
C2_Draft ==
    [][/\ Resolving => IF HasAlternateUrl(posts[cur]) THEN AsPublished ELSE AsDraft
       /\ Indexing /\ ~HasAlternateUrl(posts[cur]) => NoAliasesWritten]_vars

\* with --front_alias, a post whose alternate link has no href has been
\* written as a draft, and the published post before it has its URL map entry
C2_Witness ==
    /\ pc = "loop"
    /\ cur = 3
    /\ options.front_alias
    /\ HasAlternateUrl(posts[1])
    /\ HasAlternate(posts[2]) /\ ~HasAlternateUrl(posts[2])
    /\ post_folder.base = "draft_posts"
    /\ FilePath(post_folder, IndexMd) \in DOMAIN fs
    /\ Len(url_map) = 1

\* the files of a folder
FolderFiles(files, folder) ==
    [q \in {q \in DOMAIN files : q.folder = folder} |-> files[q]]
UrlMapFile == FilePath(root_folder, UrlMapCsv)
\* the post of the loop resolves to the folder of a post processed before it
SameFolderBefore ==
    /\ Resolving
    /\ \E j \in 1..(cur - 1) : PostFolder(posts[j]) = PostFolder(posts[cur])
\* a failed run takes no further step, and has written no url_map.csv
FailureEndsRun ==
    /\ pc # "failed"
    /\ pc' = "failed" => UrlMapFile \notin DOMAIN fs'

\* C3: when a post resolves to the folder of a post processed before it, the
\* run aborts at that post: nothing is downloaded or written for it, the
\* folder of every post processed before is left as it was when that post
\* finished, no later post is processed and url_map.csv is not written.
C3_NoMerge ==
    [][/\ SameFolderBefore =>
            /\ pc' = "failed" /\ error' = "FileExistsError"
            /\ fs' = fs /\ fetched' = fetched /\ written' = written /\ cur' = cur
       /\ \A j \in 1..(cur - 1) :
            FolderFiles(fs', PostFolder(posts[j])) = FolderFiles(fs, PostFolder(posts[j]))
       /\ FailureEndsRun]_vars

\* the second of three posts, another entry than the first, was refused the
\* folder that holds the first post's index.md and image
C3_Witness ==
    /\ pc = "failed" /\ error = "FileExistsError"
    /\ Len(posts) = 3 /\ cur = 2
    /\ posts[1].links # posts[2].links
    /\ PostFolder(posts[1]) = post_folder
    /\ FilePath(post_folder, IndexMd) \in DOMAIN fs
    /\ Cardinality(DOMAIN fs) = 2

\* the number of posts whose URL map entry, if any, has been appended
Begun ==
    CASE pc = "images" -> cur
      [] pc = "failed" /\ error # "FileNotFoundError" -> cur
      [] pc \in {"loop", "done"} \/ (pc = "failed" /\ error = "FileNotFoundError") -> cur - 1
      [] OTHER -> 0
PublishedBegun == SelectSeq(SubSeq(posts, 1, Begun), HasAlternateUrl)
FirstAlternateHref(post) ==
    post.links[CHOOSE l \in Alternates(post) : \A m \in Alternates(post) : l <= m].href

\* C4: the URL map holds one entry per published post begun so far, in the
\* order of processing (so it only grows at its end); url_map.csv exists
\* only in a completed run, where it was written once, as the last write
\* after the last selected post, with one line old_url,new_url, per entry.
C4_UrlMap ==
    /\ pc \in {"loop", "images", "failed", "done"} =>
          /\ Len(url_map) = Len(PublishedBegun)
          /\ \A m \in 1..Len(url_map) : url_map[m][1] = FirstAlternateHref(PublishedBegun[m])
    /\ pc # "done" => UrlMapFile \notin DOMAIN fs
    /\ pc = "done" =>
          /\ cur = Len(posts) + 1
          /\ {m \in 1..Len(written) : written[m] = UrlMapFile} = {Len(written)}
          /\ fs[UrlMapFile] =
                [m \in 1..Len(url_map) |->
                    [old |-> url_map[m][1], c1 |-> ",", new |-> url_map[m][2],
                     c2 |-> ",", eol |-> "\n"]]

\* a completed run over a published post, a draft and another published
\* post: two lines
C4_Witness ==
    /\ pc = "done"
    /\ Len(posts) = 3
    /\ HasAlternateUrl(posts[1]) /\ ~HasAlternate(posts[2]) /\ HasAlternateUrl(posts[3])
    /\ Len(fs[UrlMapFile]) = 2
    /\ fs[UrlMapFile][1].old # fs[UrlMapFile][2].old

\* C5 as stated: no file is written twice, so a second image that resolves
\* to a file name already used in the post's folder does not overwrite it.
C5_Original ==
    \A m, n \in 1..Len(written) : m < n => written[m] # written[n]

\* the step made a request that was answered with a status other than 200
FetchFailed ==
    /\ Len(fetched') = Len(fetched) + 1
    /\ fetched'[Len(fetched')].status # StatusOK

\* C6: a fetch answered with a status other than 200 stops the run there:
\* nothing is written for the image, what was written before stays as it
\* is, and a stopped run fetches and writes nothing more (no further image,
\* no index.md, no later post, no url_map.csv).
C6_FailFast ==
    [][/\ FetchFailed =>
            /\ pc' = "failed" /\ error' = "DownloadError"
            /\ fs' = fs /\ written' = written /\ dirs' = dirs
            /\ cur' = cur /\ k' = k
       /\ FailureEndsRun]_vars

\* the second image of the second of three posts failed to download: the
\* first post's index.md and image and the second post's first image exist
C6_Witness ==
    /\ pc = "failed" /\ error = "DownloadError"
    /\ Len(posts) = 3 /\ cur = 2 /\ k = 2
    /\ Len(fetched) = 3
    /\ fetched[3].status # StatusOK
    /\ Cardinality(DOMAIN fs) = 3
    /\ FilePath(PostFolder(posts[1]), IndexMd) \in DOMAIN fs
    /\ Cardinality(DOMAIN FolderFiles(fs, post_folder)) = 1

\* the loop of replace_images_with_downloaded is at an image with a src
Localizing ==
    /\ pc = "images"
    /\ k <= Len(imgs)
    /\ "src" \in DOMAIN dom[imgs[k]].attrs
\* the step took element old out of the tree and put a new img, with the
\* src name as its only attribute, in its place
Replaced(old, name) ==
    /\ Len(dom') = Len(dom) + 1
    /\ dom'[old].parent = Detached
    /\ dom'[Len(dom')].tag = "img"
    /\ dom'[Len(dom')].attrs = [src |-> Url("", <<name>>)]
    /\ dom'[Len(dom')].parent = dom[old].parent

\* C7 as stated: for an image directly inside a link whose target has the
\* extension of the image's candidate URL, the link's target is downloaded,
\* the file is named after its final segment and the link is replaced; for
\* any other image with a src the candidate URL is downloaded and the image
\* alone is replaced.
C7_Original ==
    [][Localizing =>
        LET img == imgs[k]
            parent == dom[img].parent
            candidate == get_src_resize_if_needed(dom[img].attrs)
            link == /\ parent # Document
                    /\ dom[parent].tag = "a"
                    /\ "href" \in DOMAIN dom[parent].attrs
                    /\ has_identical_extension(candidate, dom[parent].attrs.href)
            url == SubSizeH(IF link THEN dom[parent].attrs.href ELSE candidate)
        IN  /\ Len(fetched') = Len(fetched) + 1
            /\ fetched'[Len(fetched')].url = url
            /\ fetched'[Len(fetched')].status = StatusOK =>
                 /\ FilePath(post_folder, PathName(url)) \in DOMAIN fs'
                 /\ Replaced(IF link THEN parent ELSE img, PathName(url))
                 /\ ~link /\ parent # Document =>
                        dom'[parent].parent = dom[parent].parent]_vars

RECURSIVE InTree(_, _)
InTree(d, x) ==
    \/ d[x].parent = Document
    \/ d[x].parent # Detached /\ InTree(d, d[x].parent)

\* C10 as stated: when replace_images_with_downloaded returns, every image
\* that had a src is out of the fragment and every img in the fragment
\* either has no src or has, as its only attribute, a src naming a file
\* written in the post's folder; and the function fails for no other reason
\* than a download error.
C10_Original ==
    /\ pc = "failed" => error \notin {"KeyError", "ValueError", "IsADirectoryError"}
    /\ pc = "images" /\ k > Len(imgs) =>
          /\ \A m \in 1..Len(imgs) :
                "src" \in DOMAIN dom[imgs[m]].attrs => ~InTree(dom, imgs[m])
          /\ \A x \in 1..Len(dom) :
                InTree(dom, x) /\ dom[x].tag = "img" /\ "src" \in DOMAIN dom[x].attrs =>
                    /\ DOMAIN dom[x].attrs = {"src"}
                    /\ dom[x].attrs.src.host = ""
                    /\ Len(dom[x].attrs.src.path) = 1
                    /\ FilePath(post_folder, dom[x].attrs.src.path[1]) \in DOMAIN fs

====
